---- MODULE Spec2Model ----
(***************************************************************************)
(* Model of simple-message-broker: the record-batch codec, the S3-backed   *)
(* backing storage with its local cache, the storage coordinator, the     *)
(* blocking batcher wiring and the HTTP handlers of smb-api.              *)
(***************************************************************************)
EXTENDS Integers, Sequences, FiniteSets, TLC

(***************************************************************************)
(* Bounds of the model.                                                    *)
(***************************************************************************)
\* greatest number of records one AddRecordBatch call submits
MaxBatchLen == 2
\* greatest number of AddRecordBatch calls made on the topic
MaxAdds == 2
\* greatest number of coordinators constructed over the topic
MaxGen == 2

\* the records that producers submit: one byte, empty, two bytes
Records == <<<<65>>, <<>>, <<66, 67>>>>

\* the batches that the k-th call of AddRecordBatch (k from 0) may submit: up
\* to MaxBatchLen consecutive records of the cycle Records, starting at the
\* k-th
Batches(k) ==
    {[i \in 1..n |-> Records[((k + i - 1) % Len(Records)) + 1]] :
        n \in 0..MaxBatchLen}

(***************************************************************************)
(* internal/recordbatch: the file format.                                  *)
(***************************************************************************)
FileFormatMagicBytes == <<115, 109, 98, 33>>
FileFormatVersion == 1
headerBytes == 32
recordIndexSize == 4
\* the pluggable clock, pinned as the tests pin it
UnixEpochUs == 0

NoErr == "nil"

RECURSIVE SumSeq(_)
SumSeq(s) == IF s = <<>> THEN 0 ELSE Head(s) + SumSeq(Tail(s))

RECURSIVE Flatten(_)
Flatten(ss) == IF ss = <<>> THEN <<>> ELSE Head(ss) \o Flatten(Tail(ss))

RECURSIVE PutLE(_, _)
\* binary.LittleEndian encoding of n in w bytes
PutLE(n, w) == IF w = 0 THEN <<>> ELSE <<n % 256>> \o PutLE(n \div 256, w - 1)

RECURSIVE LE(_)
\* binary.LittleEndian decoding of a byte sequence
LE(bs) == IF bs = <<>> THEN 0 ELSE Head(bs) + 256 * LE(Tail(bs))

\* the bytes of file f from 0-based offset off, at most n of them
ReadAt(f, off, n) ==
    IF off >= Len(f) THEN <<>>
    ELSE SubSeq(f, off + 1, IF off + n > Len(f) THEN Len(f) ELSE off + n)

\* binary.Write of a Header value: 4 + 2 + 8 + 4 + 14 packed bytes
EncodeHeader(h) ==
    h.MagicBytes \o PutLE(h.Version, 2) \o PutLE(h.UnixEpochUs, 8)
        \o PutLE(h.NumRecords, 4) \o [i \in 1..14 |-> 0]

\* binary.Read of a Header value from 32 bytes
DecodeHeader(bs) ==
    [MagicBytes |-> SubSeq(bs, 1, 4),
     Version |-> LE(SubSeq(bs, 5, 6)),
     UnixEpochUs |-> LE(SubSeq(bs, 7, 14)),
     NumRecords |-> LE(SubSeq(bs, 15, 18))]

\* recordIndexes of Write: the running sum of the record lengths (a uint32;
\* the sums of the model stay far below its range)
recordIndexes(records) ==
    [i \in 1..Len(records) |->
        SumSeq([j \in 1..(i - 1) |-> Len(records[j])])]

\* the calls of binary.Write that Write makes, in order: the header, the
\* index, then one per record
WriteChunks(records) ==
    <<EncodeHeader([MagicBytes |-> FileFormatMagicBytes,
                    Version |-> FileFormatVersion,
                    UnixEpochUs |-> UnixEpochUs,
                    NumRecords |-> Len(records)])>>
    \o <<Flatten([i \in 1..Len(records) |-> PutLE(recordIndexes(records)[i], 4)])>>
    \o records

\* the steps at which the sink of Write can fail: 0 is no failure, k is a
\* failure of the k-th call of binary.Write
WriteFaults(records) == 0..(Len(records) + 2)

\* Write(wtr, records) on a sink that fails at step failAt: the bytes that
\* reached the sink and the error returned
Write(records, failAt) ==
    LET chunks == WriteChunks(records)
        n == IF failAt = 0 THEN Len(chunks) ELSE failAt - 1
    IN  [bytes |-> Flatten(SubSeq(chunks, 1, n)),
         err |-> IF failAt = 0 THEN NoErr
                 ELSE IF failAt = 1 THEN "writing header"
                 ELSE IF failAt = 2 THEN "writing record indexes"
                 ELSE "writing record"]

\* Parse(rdr) over the bytes f
Parse(f) ==
    IF Len(f) < headerBytes
    THEN [err |-> "reading header", Header |-> [NumRecords |-> 0],
          recordIndex |-> <<>>, rdr |-> f]
    ELSE LET header == DecodeHeader(SubSeq(f, 1, headerBytes))
             n == header.NumRecords
         IN  IF Len(f) < headerBytes + n * recordIndexSize
             THEN [err |-> "reading record index", Header |-> header,
                   recordIndex |-> <<>>, rdr |-> f]
             ELSE [err |-> NoErr, Header |-> header,
                   recordIndex |->
                       [i \in 1..n |->
                           LE(SubSeq(f, headerBytes + recordIndexSize * (i - 1) + 1,
                                     headerBytes + recordIndexSize * i))],
                   rdr |-> f]

\* rb.Record(recordIndex), recordIndex counted from 0
Record(rb, recordIndex) ==
    IF recordIndex >= rb.Header.NumRecords
    THEN [err |-> "recordbatch.ErrOutOfBounds", bytes |-> <<>>]
    ELSE LET recordOffset == rb.recordIndex[recordIndex + 1]
             fileOffset == headerBytes + rb.Header.NumRecords * recordIndexSize
                               + recordOffset
         IN  IF recordIndex = Len(rb.recordIndex) - 1
             THEN [err |-> NoErr,
                   bytes |-> ReadAt(rb.rdr, fileOffset, Len(rb.rdr))]
             ELSE LET size == rb.recordIndex[recordIndex + 2] - recordOffset
                      buf == ReadAt(rb.rdr, fileOffset, size)
                  IN  IF Len(buf) < size
                      THEN [err |-> "reading record", bytes |-> <<>>]
                      ELSE [err |-> NoErr, bytes |-> buf]

\* rdr.Seek(offset, io.SeekCurrent): a seek relative to where the reader is
seekCurrent(pos, offset) == pos + offset

\* rdr.Seek(offset, io.SeekStart) of Record: the position the reader, now at
\* pos, moves to
seekStart(pos, offset) == offset

\* rb.Record(recordIndex) on a reader that stands at pos: the result, and the
\* position the call leaves the reader at
RecordSeek(rb, pos, recordIndex) ==
    IF recordIndex >= rb.Header.NumRecords
    THEN [err |-> "recordbatch.ErrOutOfBounds", bytes |-> <<>>, pos |-> pos]
    ELSE LET recordOffset == rb.recordIndex[recordIndex + 1]
             fileOffset == headerBytes + rb.Header.NumRecords * recordIndexSize
                               + recordOffset
             at == seekStart(pos, fileOffset)
         IN  IF recordIndex = Len(rb.recordIndex) - 1
             THEN LET rest == ReadAt(rb.rdr, at, Len(rb.rdr))
                  IN  [err |-> NoErr, bytes |-> rest, pos |-> at + Len(rest)]
             ELSE LET size == rb.recordIndex[recordIndex + 2] - recordOffset
                      buf == ReadAt(rb.rdr, at, size)
                  IN  IF Len(buf) < size
                      THEN [err |-> "reading record", bytes |-> <<>>,
                            pos |-> at + Len(buf)]
                      ELSE [err |-> NoErr, bytes |-> buf, pos |-> at + size]

(***************************************************************************)
(* internal/storage: paths.                                                *)
(***************************************************************************)
topicPath == "rootDir/topic"
recordBatchExtension == ".record_batch"
\* the width of the %012d verb of recordBatchPath
PadWidth == 12

\* strings are sequences of character codes; the digits are '0' = 48 to '9' = 57
Char0 == 48
Char9 == 57

RECURSIVE Digits(_)
\* the decimal digits of n, most significant first
Digits(n) ==
    IF n < 10 THEN <<Char0 + n>> ELSE Digits(n \div 10) \o <<Char0 + (n % 10)>>

\* fmt.Sprintf("%012d", n)
Sprintf012d(n) ==
    LET ds == Digits(n)
    IN  IF Len(ds) >= PadWidth THEN ds
        ELSE [i \in 1..(PadWidth - Len(ds)) |-> Char0] \o ds

RECURSIVE DecimalValue(_)
\* the number a string of decimal digits denotes
DecimalValue(str) ==
    IF str = <<>> THEN 0
    ELSE DecimalValue(SubSeq(str, 1, Len(str) - 1)) * 10 + (str[Len(str)] - Char0)

\* uint64y.FromString: the number, or an error and 0 for a string that is
\* empty or has a character that is no digit
FromString(str) ==
    IF str # <<>> /\ \A i \in 1..Len(str) : str[i] >= Char0 /\ str[i] <= Char9
    THEN [err |-> NoErr, v |-> DecimalValue(str)]
    ELSE [err |-> "invalid syntax", v |-> 0]

\* recordBatchPath: the directory, and the file name as its digits and its
\* extension
recordBatchPath(tp, recordBatchID) ==
    [dir |-> tp, base |-> Sprintf012d(recordBatchID), ext |-> recordBatchExtension]

(***************************************************************************)
(* internal/storage: the S3 backing storage.  cache is the local cache     *)
(* directory and remote the bucket, both functions from the paths that     *)
(* exist to the bytes stored under them.                                   *)
(***************************************************************************)
NoFiles == [p \in {} |-> <<>>]

\* faults of S3Storage.Writer: os.Create failing in createCacheFile
WriterFaults == {"none", "create"}
\* faults of s3WriteCloser.Close, one per step
CloseFaults == {"none", "seek", "upload", "close"}
\* faults of S3Storage.Reader on a cache miss
ReaderFaults == {"none", "get", "create", "copy"}
\* faults of S3Storage.ListFiles
ListFaults == {"none", "list"}

\* createCacheFile: os.Create makes the file, or truncates the one there is
createCacheFile(c, path) == (path :> <<>>) @@ c

\* Writer with the look for an existing cache file left out
WriterOverwrites(c, path, fault) ==
    IF fault = "create"
    THEN [err |-> "creating cache record batch", cache |-> c]
    ELSE [err |-> NoErr, cache |-> createCacheFile(c, path)]

\* S3Storage.Writer
Writer(c, path, fault) ==
    IF path \in DOMAIN c
    THEN [err |-> "file already exists", cache |-> c]
    ELSE IF fault = "create"
    THEN [err |-> "creating cache record batch", cache |-> c]
    ELSE [err |-> NoErr, cache |-> createCacheFile(c, path)]

\* s3WriteCloser.Close: seek, upload the cache file under the key, close it;
\* fileClosed says whether the call got to close the cache file
Close(c, rem, path, fault) ==
    IF fault = "seek"
    THEN [err |-> "seeking to beginning", remote |-> rem, fileClosed |-> FALSE]
    ELSE IF fault = "upload"
    THEN [err |-> "uploading to s3", remote |-> rem, fileClosed |-> FALSE]
    ELSE [err |-> IF fault = "close" THEN "closing file" ELSE NoErr,
          remote |-> (path :> c[path]) @@ rem, fileClosed |-> TRUE]

\* Reader with the look into the cache left out: the object is fetched on
\* every call
ReaderWithoutCache(c, rem, path, fault) ==
    IF fault = "get" \/ path \notin DOMAIN rem
    THEN [err |-> "retrieving s3 object", f |-> <<>>, cache |-> c, fetched |-> FALSE,
          open |-> 0]
    ELSE [err |-> NoErr, f |-> rem[path],
          cache |-> (path :> rem[path]) @@ c, fetched |-> TRUE, open |-> 1]

\* S3Storage.Reader: the cache file when there is one, else the remote
\* object, copied into a new cache file; open counts the files the call has
\* opened and not closed when it returns (the file it returns, or the file
\* it created when the copy failed)
Reader(c, rem, path, fault) ==
    IF path \in DOMAIN c
    THEN [err |-> NoErr, f |-> c[path], cache |-> c, fetched |-> FALSE, open |-> 1]
    ELSE IF fault = "get" \/ path \notin DOMAIN rem
    THEN [err |-> "retrieving s3 object", f |-> <<>>, cache |-> c, fetched |-> FALSE,
          open |-> 0]
    ELSE IF fault = "create"
    THEN [err |-> "creating cache record batch", f |-> <<>>, cache |-> c,
          fetched |-> TRUE, open |-> 0]
    ELSE IF fault = "copy"
    THEN [err |-> "writing s3 object to disk", f |-> <<>>,
          cache |-> createCacheFile(c, path), fetched |-> TRUE, open |-> 1]
    ELSE [err |-> NoErr, f |-> rem[path],
          cache |-> (path :> rem[path]) @@ c, fetched |-> TRUE, open |-> 1]

\* lexicographic order of two file names of digits
RECURSIVE LexLess(_, _)
LexLess(a, b) ==
    IF a = <<>> THEN b # <<>>
    ELSE IF b = <<>> THEN FALSE
    ELSE IF Head(a) # Head(b) THEN Head(a) < Head(b)
    ELSE LexLess(Tail(a), Tail(b))

RECURSIVE KeyOrder(_)
\* the keys of a bucket listing, in the order the object store lists them
KeyOrder(ps) ==
    IF ps = {} THEN <<>>
    ELSE LET first == CHOOSE p \in ps : \A q \in ps \ {p} : LexLess(p.base, q.base)
         IN  <<first>> \o KeyOrder(ps \ {first})

\* the orders in which a listing of n keys can arrive: the permutations of
\* its positions
ListingOrders(n) ==
    {f \in [1..n -> 1..n] : \A i, j \in 1..n : i # j => f[i] # f[j]}

\* the order of the object store itself: ascending by key
S3Order(n) == [i \in 1..n |-> i]

\* the topic's batch files in the bucket
BatchFiles(rem, tp, extension) == {p \in DOMAIN rem : p.dir = tp /\ p.ext = extension}

\* S3Storage.ListFiles: the keys under the prefix that end in the extension,
\* appended in the order in which the store's pages deliver them
ListFiles(rem, tp, extension, fault, order) ==
    LET keys == KeyOrder(BatchFiles(rem, tp, extension))
    IN  [err |-> IF fault = "list" THEN "listing objects" ELSE NoErr,
         fileNames |-> IF fault = "list" THEN <<>>
                       ELSE [i \in 1..Len(keys) |-> keys[order[i]]]]

(***************************************************************************)
(* internal/storage: the storage coordinator.                              *)
(***************************************************************************)
\* listRecordBatchIDs
listRecordBatchIDs(rem, tp, fault, order) ==
    LET l == ListFiles(rem, tp, recordBatchExtension, fault, order)
        parsed == [i \in 1..Len(l.fileNames) |-> FromString(l.fileNames[i].base)]
        bad == {i \in 1..Len(parsed) : parsed[i].err # NoErr}
    IN  IF l.err # NoErr THEN [err |-> l.err, recordIDs |-> <<>>]
        ELSE IF bad # {} THEN [err |-> "invalid syntax", recordIDs |-> <<>>]
        ELSE [err |-> NoErr, recordIDs |-> [i \in 1..Len(parsed) |-> parsed[i].v]]

\* readRecordBatchHeader
readRecordBatchHeader(c, rem, tp, recordBatchID, fault) ==
    LET rd == Reader(c, rem, recordBatchPath(tp, recordBatchID), fault)
        rb == Parse(rd.f)
    IN  [err |-> IF rd.err # NoErr THEN rd.err ELSE rb.err,
         hdr |-> rb.Header, cache |-> rd.cache,
         \* the function has no call of Close
         leaked |-> rd.open]

\* whether NewStorage finds the newest batch file missing from the cache
HeaderMiss(c, rem, order) ==
    LET ids == listRecordBatchIDs(rem, topicPath, "none", order).recordIDs
    IN  /\ Len(ids) > 0
        /\ recordBatchPath(topicPath, ids[Len(ids)]) \notin DOMAIN c

\* NewStorage: the coordinator over the backing storage, or the error
NewStorage(c, rem, listFault, readFault, order) ==
    LET l == listRecordBatchIDs(rem, topicPath, listFault, order)
        ids == l.recordIDs
    IN  IF l.err # NoErr
        THEN [err |-> l.err, nextRecordID |-> 0, recordBatchIDs |-> <<>>, cache |-> c,
              leaked |-> 0]
        ELSE IF Len(ids) > 0
        THEN LET newestRecordBatchID == ids[Len(ids)]
                 h == readRecordBatchHeader(c, rem, topicPath, newestRecordBatchID,
                                            readFault)
             IN  [err |-> h.err,
                  nextRecordID |-> IF h.err # NoErr THEN 0
                                   ELSE newestRecordBatchID + h.hdr.NumRecords,
                  recordBatchIDs |-> IF h.err # NoErr THEN <<>> ELSE ids,
                  cache |-> h.cache, leaked |-> h.leaked]
        ELSE [err |-> NoErr, nextRecordID |-> 0, recordBatchIDs |-> ids, cache |-> c,
              leaked |-> 0]

\* LocateBatch with the scan run from the front of recordBatchIDs
LocateBatchFromFront(ids, recordID) ==
    LET hits == {i \in 1..Len(ids) : ids[i] <= recordID}
    IN  IF hits = {} THEN 0
        ELSE ids[CHOOSE i \in hits : \A j \in hits : i <= j]

\* the batch ReadRecord picks: the scan of recordBatchIDs from its end for
\* the first entry <= recordID, 0 when there is none
LocateBatch(ids, recordID) ==
    LET hits == {i \in 1..Len(ids) : ids[i] <= recordID}
    IN  IF hits = {} THEN 0
        ELSE ids[CHOOSE i \in hits : \A j \in hits : j <= i]

\* whether ReadRecord of recordID gets past the bounds check and finds the
\* batch file missing from the cache
CacheMiss(next, ids, c, recordID) ==
    /\ recordID < next
    /\ recordBatchPath(topicPath, LocateBatch(ids, recordID)) \notin DOMAIN c

\* the rest of ReadRecord once the batch is located: open the Reader, Parse,
\* extract the record at offset recordID - recordBatchID
ReadFromBatch(c, rem, recordID, recordBatchID, fault) ==
    LET rbPath == recordBatchPath(topicPath, recordBatchID)
        rd == Reader(c, rem, rbPath, fault)
        rb == Parse(rd.f)
        rec == Record(rb, recordID - recordBatchID)
    IN  [err |-> IF rd.err # NoErr THEN rd.err
                 ELSE IF rb.err # NoErr THEN rb.err
                 ELSE rec.err,
         bytes |-> IF rd.err = NoErr /\ rb.err = NoErr THEN rec.bytes ELSE <<>>,
         cache |-> rd.cache,
         opened |-> <<rbPath>>, fetched |-> rd.fetched,
         batch |-> recordBatchID,
         \* lines 92-106 have no call of Close
         leaked |-> rd.open]

\* Storage.ReadRecord on the coordinator state (next, ids)
ReadRecord(next, ids, c, rem, recordID, fault) ==
    IF recordID >= next
    THEN [err |-> "ErrOutOfBounds", bytes |-> <<>>, cache |-> c,
          opened |-> <<>>, fetched |-> FALSE, batch |-> 0, leaked |-> 0]
    ELSE ReadFromBatch(c, rem, recordID, LocateBatch(ids, recordID), fault)

\* Storage.AddRecordBatch on the coordinator state (next, ids): the Writer
\* is opened, the codec writes through it, the state is advanced, and the
\* deferred Close runs on every path after the Writer was opened, its error
\* dropped
AddRecordBatch(next, ids, c, rem, records, openFault, writeFault, closeFault) ==
    LET recordBatchID == next
        rbPath == recordBatchPath(topicPath, recordBatchID)
        wr == Writer(c, rbPath, openFault)
        cw == Write(records, writeFault)
        c2 == [wr.cache EXCEPT ![rbPath] = @ \o cw.bytes]
        cl == Close(c2, rem, rbPath, closeFault)
    IN  IF wr.err # NoErr
        THEN [err |-> "opening writer", nextRecordID |-> next, recordBatchIDs |-> ids,
              cache |-> c, remote |-> rem, closeErr |-> NoErr, closed |-> FALSE,
              fileClosed |-> FALSE, path |-> rbPath]
        ELSE IF cw.err # NoErr
        THEN [err |-> "writing record batch", nextRecordID |-> next,
              recordBatchIDs |-> ids, cache |-> c2, remote |-> cl.remote,
              closeErr |-> cl.err, closed |-> TRUE, fileClosed |-> cl.fileClosed,
              path |-> rbPath]
        ELSE [err |-> NoErr, nextRecordID |-> recordBatchID + Len(records),
              recordBatchIDs |-> Append(ids, recordBatchID),
              cache |-> c2, remote |-> cl.remote,
              closeErr |-> cl.err, closed |-> TRUE, fileClosed |-> cl.fileClosed,
              path |-> rbPath]

(***************************************************************************)
(* The state.                                                              *)
(***************************************************************************)
VARIABLES
    nextRecordID,    \* Storage.nextRecordID
    recordBatchIDs,  \* Storage.recordBatchIDs
    up,              \* whether NewStorage returned a coordinator
    cache,           \* the files under the local cache root
    remote,          \* the objects of the bucket
    gen,             \* how many coordinators were constructed over the topic
    addFailed,       \* whether an AddRecordBatch of this coordinator returned an error
    acked,           \* the records of the AddRecordBatch calls that returned nil
    calls,           \* how many times AddRecordBatch was called on the topic
    op,              \* the last call: its name, argument, result and pre-state
    w,               \* the AddRecordBatch call in progress, and where it is
    rd,              \* per reader, the ReadRecord call in progress, and where it is
    closedUpTo,      \* nextRecordID as of the last return of a writer's Close
    prod,            \* per producer, its /add request and where it is
    pending,         \* the producers whose records the open window has accumulated
    flushes          \* the invocations of the flush callback, in order of dispatch

storageVars == <<nextRecordID, recordBatchIDs, up, cache, remote>>
historyVars == <<gen, addFailed, acked, calls, op>>
rwVars == <<w, rd, closedUpTo>>
batcherVars == <<prod, pending, flushes>>
vars == <<nextRecordID, recordBatchIDs, up, cache, remote,
          gen, addFailed, acked, calls, op, w, rd, closedUpTo,
          prod, pending, flushes>>

\* the clients that post to /add at the same time, and the body each posts
Producers == {"p1", "p2", "p3"}
Body(p) == IF p = "p1" THEN Records[1] ELSE IF p = "p2" THEN Records[2] ELSE Records[3]

ProducerIdle == [pc |-> "idle", rec |-> <<>>, flush |-> 0, result |-> NoErr, status |-> 0]

\* the goroutines that serve /get requests at the same time
Readers == {"r1", "r2"}

WriterIdle == [pc |-> "idle", records |-> <<>>, recordBatchID |-> 0, err |-> NoErr]
ReaderIdle == [pc |-> "idle", recordID |-> 0, recordBatchID |-> 0, fetched |-> FALSE,
               obj |-> <<>>, rb |-> <<>>]

\* the record IDs that callers ask for
RecordIDs == 0..(MaxAdds * MaxBatchLen + 1)

\* what ReadRecord returns for each ID on the given state, no fault injected
ReadAll(next, ids, c, rem) ==
    [id \in RecordIDs |->
        LET r == ReadRecord(next, ids, c, rem, id, "none")
        IN  [err |-> r.err, bytes |-> r.bytes]]

\* main: NewS3Storage over an empty bucket and an empty cache directory
Init ==
    /\ nextRecordID = 0
    /\ recordBatchIDs = <<>>
    /\ up = TRUE
    /\ cache = NoFiles
    /\ remote = NoFiles
    /\ gen = 1
    /\ addFailed = FALSE
    /\ acked = <<>>
    /\ calls = 0
    /\ w = WriterIdle
    /\ rd = [r \in Readers |-> ReaderIdle]
    /\ closedUpTo = 0
    /\ prod = [p \in Producers |-> ProducerIdle]
    /\ pending = <<>>
    /\ flushes = <<>>
    /\ op = [name |-> "NewStorage", arg |-> <<>>, err |-> NoErr, out |-> <<>>,
             pre |-> <<>>, aux |-> <<>>]

\* a call of Storage.AddRecordBatch with the given records, run to its
\* return under the given faults
AddStep(records, openFault, writeFault, closeFault) ==
    /\ up
    /\ calls < MaxAdds
    /\ calls' = calls + 1
    \* when the Writer is not opened nothing is written or closed
    /\ openFault = "none" \/ (writeFault = 0 /\ closeFault = "none")
    /\ LET a == AddRecordBatch(nextRecordID, recordBatchIDs, cache, remote,
                               records, openFault, writeFault, closeFault)
       IN  /\ nextRecordID' = a.nextRecordID
           /\ recordBatchIDs' = a.recordBatchIDs
           /\ cache' = a.cache
           /\ remote' = a.remote
           /\ addFailed' = (addFailed \/ a.err # NoErr)
           /\ acked' = IF a.err = NoErr THEN acked \o records ELSE acked
           /\ op' = [name |-> "AddRecordBatch", arg |-> records, err |-> a.err,
                     out |-> <<>>,
                     pre |-> [nextRecordID |-> nextRecordID,
                              recordBatchIDs |-> recordBatchIDs],
                     aux |-> [closeErr |-> a.closeErr, closed |-> a.closed,
                              fileClosed |-> a.fileClosed, path |-> a.path]]
    /\ UNCHANGED <<up, gen, rwVars, batcherVars>>

\* a call of Storage.AddRecordBatch, run to its return
DoAddRecordBatch ==
    \E records \in Batches(calls), openFault \in WriterFaults, closeFault \in CloseFaults :
       \E writeFault \in WriteFaults(records) :
          AddStep(records, openFault, writeFault, closeFault)

\* a call of Storage.AddRecordBatch on a machine whose disk does not fail:
\* the upload to the bucket is the one step that can
DoAddRecordBatchUpload ==
    \E records \in Batches(calls), closeFault \in {"none", "upload"} :
       AddStep(records, "none", 0, closeFault)

\* a call of Storage.ReadRecord, run to its return
DoReadRecord ==
    /\ up
    /\ \E recordID \in RecordIDs, fault \in ReaderFaults :
          /\ recordID <= nextRecordID + 1
          \* a fault of the remote fetch needs a fetch
          /\ fault = "none" \/ CacheMiss(nextRecordID, recordBatchIDs, cache, recordID)
          /\ LET r == ReadRecord(nextRecordID, recordBatchIDs, cache, remote,
                                 recordID, fault)
             IN  /\ cache' = r.cache
                 /\ op' = [name |-> "ReadRecord", arg |-> recordID, err |-> r.err,
                           out |-> r.bytes,
                           pre |-> [nextRecordID |-> nextRecordID,
                                    recordBatchIDs |-> recordBatchIDs],
                           aux |-> [opened |-> r.opened, fetched |-> r.fetched,
                                    batch |-> r.batch, leaked |-> r.leaked]]
    /\ UNCHANGED <<nextRecordID, recordBatchIDs, up, remote, gen, addFailed, acked, calls,
                   rwVars, batcherVars>>

\* the process is started again: NewStorage over the same bucket, on the
\* same machine (the cache directory is kept) or on another (it is empty),
\* with the listing arriving in the given order
StartUp(order) ==
    /\ gen < MaxGen
    /\ \E keepCache \in BOOLEAN, listFault \in ListFaults, readFault \in ReaderFaults :
          LET c == IF keepCache THEN cache ELSE NoFiles
              n == NewStorage(c, remote, listFault, readFault, order)
          IN  \* a fault of the remote fetch needs a fetch
              /\ readFault = "none" \/ (listFault = "none" /\ HeaderMiss(c, remote, order))
              /\ up' = (n.err = NoErr)
              /\ nextRecordID' = n.nextRecordID
              /\ recordBatchIDs' = n.recordBatchIDs
              /\ cache' = n.cache
              /\ op' = [name |-> "NewStorage", arg |-> <<>>, err |-> n.err,
                        out |-> <<>>,
                        pre |-> [nextRecordID |-> nextRecordID,
                                 recordBatchIDs |-> recordBatchIDs,
                                 up |-> up, addFailed |-> addFailed,
                                 reads |-> ReadAll(nextRecordID, recordBatchIDs,
                                                   cache, remote)],
                        aux |-> [keepCache |-> keepCache, order |-> order,
                                 leaked |-> n.leaked]]
    /\ gen' = gen + 1
    /\ addFailed' = FALSE
    /\ UNCHANGED <<remote, acked, calls, rwVars, batcherVars>>

\* NewS3Storage: the coordinator over the object store, which lists its keys
\* in ascending order
DoNewStorage ==
    \E order \in {S3Order(Cardinality(BatchFiles(remote, topicPath, recordBatchExtension)))} :
       StartUp(order)

\* NewStorage over a backing storage whose ListFiles returns the paths in
\* any order
DoNewStorageAnyOrder ==
    \E order \in ListingOrders(Cardinality(BatchFiles(remote, topicPath, recordBatchExtension))) :
       StartUp(order)

(***************************************************************************)
(* cmd/smb-api: the /get handler.                                          *)
(***************************************************************************)
\* http.ResponseWriter.WriteHeader: the first status code set is the one sent
WriteHeader(status, code) == IF status = 0 THEN code ELSE status

\* the handler of /get for the value param of the record-id parameter: the
\* response, the IDs it called ReadRecord with, and the cache afterwards
GetHandler(next, ids, c, rem, param, parseFormErr, fault) ==
    LET s1 == IF parseFormErr THEN 500 ELSE 0
        b1 == IF parseFormErr THEN <<[kind |-> "text", bytes |-> <<>>]>> ELSE <<>>
        parsed == FromString(param)
        s2 == IF parsed.err # NoErr THEN WriteHeader(s1, 400) ELSE s1
        b2 == IF parsed.err # NoErr
              THEN b1 \o <<[kind |-> "text", bytes |-> <<>>],
                           [kind |-> "text", bytes |-> <<>>]>>
              ELSE b1
        recordID == parsed.v
        r == ReadRecord(next, ids, c, rem, recordID, fault)
    IN  IF r.err = "ErrOutOfBounds"
        THEN [status |-> WriteHeader(s2, 404), body |-> b2, read |-> <<recordID>>,
              readErr |-> r.err, cache |-> r.cache]
        ELSE LET s3 == IF r.err # NoErr THEN WriteHeader(s2, 500) ELSE s2
                 b3 == IF r.err # NoErr
                       THEN b2 \o <<[kind |-> "text", bytes |-> <<>>]>> ELSE b2
             IN  [status |-> WriteHeader(s3, 200),
                  body |-> b3 \o <<[kind |-> "record", bytes |-> r.bytes]>>,
                  read |-> <<recordID>>, readErr |-> r.err, cache |-> r.cache]

\* the values of the record-id parameter that clients send: none, a word,
\* and the decimal numbers
Params == {<<>>, <<120>>} \cup {Digits(id) : id \in RecordIDs}

\* a request GET /get, served to its response
DoGet ==
    /\ up
    /\ \E param \in Params, parseFormErr \in BOOLEAN, fault \in ReaderFaults :
          /\ FromString(param).v <= nextRecordID + 1
          /\ fault = "none"
                \/ CacheMiss(nextRecordID, recordBatchIDs, cache, FromString(param).v)
          /\ LET g == GetHandler(nextRecordID, recordBatchIDs, cache, remote,
                                 param, parseFormErr, fault)
             IN  /\ cache' = g.cache
                 /\ op' = [name |-> "GET", arg |-> param, err |-> g.readErr,
                           out |-> [status |-> g.status, body |-> g.body],
                           pre |-> [nextRecordID |-> nextRecordID,
                                    recordBatchIDs |-> recordBatchIDs],
                           aux |-> [read |-> g.read, parseFormErr |-> parseFormErr]]
    /\ UNCHANGED <<nextRecordID, recordBatchIDs, up, remote, gen, addFailed, acked, calls,
                   rwVars, batcherVars>>

\* the coordinator over a topic, restarts included
Next ==
    \/ DoAddRecordBatch
    \/ DoReadRecord
    \/ DoNewStorage

Spec == Init /\ [][Next]_vars

\* the life of the first coordinator of a topic
NextFirst ==
    \/ DoAddRecordBatch
    \/ DoReadRecord

SpecFirst == Init /\ [][NextFirst]_vars

\* the coordinator behind the /get handler
NextGet ==
    \/ DoAddRecordBatch
    \/ DoNewStorage
    \/ DoGet

SpecGet == Init /\ [][NextGet]_vars

\* a call of S3Storage.Reader for the path of a batch, made on the backing
\* storage itself
DoReader ==
    /\ up
    /\ \E id \in RecordIDs, fault \in ReaderFaults :
          LET path == recordBatchPath(topicPath, id)
              r == Reader(cache, remote, path, fault)
          IN  \* the paths of the batches there are, and of the next one
              /\ id = nextRecordID \/ path \in DOMAIN cache \/ path \in DOMAIN remote
              \* a fault of the remote fetch needs a fetch
              /\ fault = "none" \/ path \notin DOMAIN cache
              /\ cache' = r.cache
              /\ op' = [name |-> "Reader", arg |-> path, err |-> r.err, out |-> r.f,
                        pre |-> [nextRecordID |-> nextRecordID,
                                 recordBatchIDs |-> recordBatchIDs],
                        aux |-> [fetched |-> r.fetched, open |-> r.open]]
    /\ UNCHANGED <<nextRecordID, recordBatchIDs, up, remote, gen, addFailed, acked, calls,
                   rwVars, batcherVars>>

(***************************************************************************)
(* internal/recordbatch on its own: a list of records is written to a      *)
(* buffer, the buffer is parsed, and records are read from the parsed      *)
(* batch in any order.  op holds the call made last: pre is the list of    *)
(* records, aux.file the bytes written, aux.rb the parsed batch, aux.pos   *)
(* the position of its reader and aux.prev the record index of the Record  *)
(* call before (-1 if none).                                               *)
(***************************************************************************)
\* the lists of records handed to Write: up to MaxBatchLen + 1 records, each
\* any of Records
RecordLists ==
    UNION {[1..n -> {Records[k] : k \in 1..Len(Records)}] : n \in 0..(MaxBatchLen + 1)}

\* no batch parsed yet
Unparsed ==
    [err |-> "unparsed", Header |-> [NumRecords |-> 0], recordIndex |-> <<>>,
     rdr |-> <<>>]

InitCodec ==
    /\ nextRecordID = 0
    /\ recordBatchIDs = <<>>
    /\ up = FALSE
    /\ cache = NoFiles
    /\ remote = NoFiles
    /\ gen = 0
    /\ addFailed = FALSE
    /\ acked = <<>>
    /\ calls = 0
    /\ w = WriterIdle
    /\ rd = [r \in Readers |-> ReaderIdle]
    /\ closedUpTo = 0
    /\ prod = [p \in Producers |-> ProducerIdle]
    /\ pending = <<>>
    /\ flushes = 0
    /\ \E records \in RecordLists :
          op = [name |-> "records", arg |-> 0, err |-> NoErr, out |-> <<>>,
                pre |-> records,
                aux |-> [file |-> <<>>, rb |-> Unparsed, pos |-> 0, prev |-> -1]]

\* Write(wtr, records) into an empty buffer
DoWrite ==
    /\ op.name = "records"
    /\ \E failAt \in WriteFaults(op.pre) :
          LET wr == Write(op.pre, failAt)
          IN  op' = [op EXCEPT !.name = "Write", !.err = wr.err,
                               !.aux.file = wr.bytes]
    /\ UNCHANGED <<storageVars, gen, addFailed, acked, calls, rwVars, batcherVars>>

\* Parse(rdr) over the bytes that a successful Write produced; the reader is
\* left behind the record index
DoParse ==
    /\ op.name = "Write" /\ op.err = NoErr
    /\ LET rb == Parse(op.aux.file)
       IN  op' = [op EXCEPT !.name = "Parse", !.err = rb.err, !.aux.rb = rb,
                            !.aux.pos = IF rb.err = NoErr
                                        THEN headerBytes
                                                 + rb.Header.NumRecords * recordIndexSize
                                        ELSE Len(op.aux.file)]
    /\ UNCHANGED <<storageVars, gen, addFailed, acked, calls, rwVars, batcherVars>>

\* rb.Record(recordIndex) for any index up to one past the first that does
\* not exist, after any earlier Record calls
DoRecord ==
    /\ op.name \in {"Parse", "Record"} /\ op.aux.rb.err = NoErr
    /\ \E recordIndex \in 0..(Len(op.pre) + 1) :
          LET res == RecordSeek(op.aux.rb, op.aux.pos, recordIndex)
          IN  op' = [op EXCEPT !.name = "Record", !.arg = recordIndex,
                               !.err = res.err, !.out = res.bytes,
                               !.aux.pos = res.pos,
                               !.aux.prev = IF op.name = "Record" THEN op.arg ELSE -1]
    /\ UNCHANGED <<storageVars, gen, addFailed, acked, calls, rwVars, batcherVars>>

NextCodec ==
    \/ DoWrite
    \/ DoParse
    \/ DoRecord

SpecCodec == InitCodec /\ [][NextCodec]_vars

\* a call of S3Storage.Writer for the path of a batch, made on the backing
\* storage itself by a caller that writes nothing and does not close
DoWriter ==
    /\ up
    /\ \E id \in RecordIDs, fault \in WriterFaults :
          LET path == recordBatchPath(topicPath, id)
              wr == Writer(cache, path, fault)
          IN  \* the paths of the batches there are, and of the next one
              /\ id = nextRecordID \/ path \in DOMAIN cache \/ path \in DOMAIN remote
              /\ cache' = wr.cache
              /\ op' = [name |-> "Writer", arg |-> path, err |-> wr.err, out |-> <<>>,
                        pre |-> [nextRecordID |-> nextRecordID,
                                 recordBatchIDs |-> recordBatchIDs],
                        aux |-> [closed |-> FALSE]]
    /\ UNCHANGED <<nextRecordID, recordBatchIDs, up, remote, gen, addFailed, acked, calls,
                   rwVars, batcherVars>>

\* the backing storage under the coordinator and under direct Writer calls
NextWriter ==
    \/ DoAddRecordBatch
    \/ DoWriter

SpecWriter == Init /\ [][NextWriter]_vars

\* the backing storage under the coordinator and under direct Reader calls
NextCache ==
    \/ DoAddRecordBatchUpload
    \/ DoNewStorage
    \/ DoReader

SpecCache == Init /\ [][NextCache]_vars

\* the coordinator over a backing storage that lists in any order
NextListing ==
    \/ DoAddRecordBatch
    \/ DoReadRecord
    \/ DoNewStorageAnyOrder

SpecListing == Init /\ [][NextListing]_vars

(***************************************************************************)
(* The /add and /get handlers run on goroutines of their own: ReadRecord   *)
(* runs while AddRecordBatch runs.  AddRecordBatch and ReadRecord are      *)
(* taken statement by statement; neither takes a lock.                     *)
(***************************************************************************)
\* AddRecordBatch lines 58-65: the batch ID is read and the Writer opened
AddCall ==
    /\ up /\ w.pc = "idle"
    /\ calls < MaxAdds
    /\ calls' = calls + 1
    /\ \E records \in Batches(calls), openFault \in WriterFaults :
          LET rbPath == recordBatchPath(topicPath, nextRecordID)
              wr == Writer(cache, rbPath, openFault)
          IN  /\ cache' = wr.cache
              /\ IF wr.err # NoErr
                 THEN /\ w' = WriterIdle
                      /\ addFailed' = TRUE
                      /\ op' = [name |-> "AddRecordBatch", arg |-> records,
                                err |-> "opening writer", out |-> <<>>,
                                pre |-> [nextRecordID |-> nextRecordID,
                                         recordBatchIDs |-> recordBatchIDs],
                                aux |-> [closeErr |-> NoErr, closed |-> FALSE,
                                         fileClosed |-> FALSE, path |-> rbPath]]
                 ELSE /\ w' = [pc |-> "write", records |-> records,
                               recordBatchID |-> nextRecordID, err |-> NoErr]
                      /\ UNCHANGED <<addFailed, op>>
    /\ UNCHANGED <<nextRecordID, recordBatchIDs, up, remote, gen, acked, rd, closedUpTo,
                   batcherVars>>

\* AddRecordBatch lines 67-70: the codec writes through the Writer
AddWrite ==
    /\ w.pc = "write"
    /\ \E writeFault \in WriteFaults(w.records) :
          LET cw == Write(w.records, writeFault)
              rbPath == recordBatchPath(topicPath, w.recordBatchID)
          IN  /\ cache' = [cache EXCEPT ![rbPath] = @ \o cw.bytes]
              /\ w' = IF cw.err # NoErr
                      THEN [w EXCEPT !.pc = "close", !.err = "writing record batch"]
                      ELSE [w EXCEPT !.pc = "append"]
    /\ UNCHANGED <<nextRecordID, recordBatchIDs, up, remote, historyVars, rd, closedUpTo,
                   batcherVars>>

\* AddRecordBatch line 71
AddAppend ==
    /\ w.pc = "append"
    /\ recordBatchIDs' = Append(recordBatchIDs, w.recordBatchID)
    /\ w' = [w EXCEPT !.pc = "advance"]
    /\ UNCHANGED <<nextRecordID, up, cache, remote, historyVars, rd, closedUpTo,
                   batcherVars>>

\* AddRecordBatch line 72
AddAdvance ==
    /\ w.pc = "advance"
    /\ nextRecordID' = w.recordBatchID + Len(w.records)
    /\ w' = [w EXCEPT !.pc = "close"]
    /\ UNCHANGED <<recordBatchIDs, up, cache, remote, historyVars, rd, closedUpTo,
                   batcherVars>>

\* AddRecordBatch returns: the deferred Close runs, its error is dropped
AddReturn ==
    /\ w.pc = "close"
    /\ \E closeFault \in CloseFaults :
          LET rbPath == recordBatchPath(topicPath, w.recordBatchID)
              cl == Close(cache, remote, rbPath, closeFault)
          IN  /\ remote' = cl.remote
              /\ op' = [name |-> "AddRecordBatch", arg |-> w.records, err |-> w.err,
                        out |-> <<>>,
                        pre |-> [nextRecordID |-> w.recordBatchID,
                                 recordBatchIDs |->
                                    IF w.err = NoErr
                                    THEN SubSeq(recordBatchIDs, 1, Len(recordBatchIDs) - 1)
                                    ELSE recordBatchIDs],
                        aux |-> [closeErr |-> cl.err, closed |-> TRUE,
                                 fileClosed |-> cl.fileClosed, path |-> rbPath]]
    /\ addFailed' = (addFailed \/ w.err # NoErr)
    /\ acked' = IF w.err = NoErr THEN acked \o w.records ELSE acked
    /\ closedUpTo' = nextRecordID
    /\ w' = WriterIdle
    /\ UNCHANGED <<nextRecordID, recordBatchIDs, up, cache, gen, calls, rd, batcherVars>>

\* ReadRecord lines 78-80: the bounds check
ReadCall(r) ==
    /\ up /\ rd[r].pc = "idle"
    /\ \E recordID \in RecordIDs :
          /\ recordID <= nextRecordID + 1
          /\ IF recordID >= nextRecordID
             THEN /\ op' = [name |-> "ReadRecord", arg |-> recordID,
                            err |-> "ErrOutOfBounds", out |-> <<>>,
                            pre |-> [nextRecordID |-> nextRecordID,
                                     recordBatchIDs |-> recordBatchIDs],
                            aux |-> [opened |-> <<>>, fetched |-> FALSE, batch |-> 0,
                                     leaked |-> 0]]
                  /\ rd' = rd
             ELSE /\ rd' = [rd EXCEPT ![r] = [ReaderIdle EXCEPT !.pc = "scan",
                                                                !.recordID = recordID]]
                  /\ op' = op
    /\ UNCHANGED <<storageVars, gen, addFailed, acked, calls, w, closedUpTo, batcherVars>>

\* ReadRecord lines 82-89: the scan of recordBatchIDs
ReadScan(r) ==
    /\ rd[r].pc = "scan"
    /\ rd' = [rd EXCEPT ![r].pc = "open",
                        ![r].recordBatchID = LocateBatch(recordBatchIDs, rd[r].recordID)]
    /\ UNCHANGED <<storageVars, historyVars, w, closedUpTo, batcherVars>>

\* ReadRecord lines 91-106: Reader, Parse, Record, return
ReadReturn(r) ==
    /\ rd[r].pc = "open"
    /\ LET res == ReadFromBatch(cache, remote, rd[r].recordID, rd[r].recordBatchID,
                                "none")
       IN  /\ cache' = res.cache
           /\ op' = [name |-> "ReadRecord", arg |-> rd[r].recordID, err |-> res.err,
                     out |-> res.bytes,
                     pre |-> [nextRecordID |-> nextRecordID,
                              recordBatchIDs |-> recordBatchIDs],
                     aux |-> [opened |-> res.opened, fetched |-> res.fetched,
                              batch |-> res.batch, leaked |-> res.leaked]]
    /\ rd' = [rd EXCEPT ![r] = ReaderIdle]
    /\ UNCHANGED <<nextRecordID, recordBatchIDs, up, remote, gen, addFailed, acked,
                   calls, w, closedUpTo, batcherVars>>

NextRW ==
    \/ AddCall
    \/ AddWrite
    \/ AddAppend
    \/ AddAdvance
    \/ AddReturn
    \/ \E r \in Readers : ReadCall(r)
    \/ \E r \in Readers : ReadScan(r)
    \/ \E r \in Readers : ReadReturn(r)

SpecRW == Init /\ [][NextRW]_vars

(***************************************************************************)
(* Lines 71 and 72 of AddRecordBatch store to two fields that ReadRecord   *)
(* loads with no lock, channel or atomic in between: a data race.  The     *)
(* order in which the two stores become visible to a reading goroutine is  *)
(* then not fixed by the program: besides the program order (AddAppend,    *)
(* AddAdvance) the store of line 72 can be seen before that of line 71.    *)
(***************************************************************************)
\* the store of line 72 becomes visible while that of line 71 is not yet
AddAdvanceEarly ==
    /\ w.pc = "append"
    /\ nextRecordID' = w.recordBatchID + Len(w.records)
    /\ w' = [w EXCEPT !.pc = "appendLate"]
    /\ UNCHANGED <<recordBatchIDs, up, cache, remote, historyVars, rd, closedUpTo,
                   batcherVars>>

\* the store of line 71 becomes visible after that of line 72
AddAppendLate ==
    /\ w.pc = "appendLate"
    /\ recordBatchIDs' = Append(recordBatchIDs, w.recordBatchID)
    /\ w' = [w EXCEPT !.pc = "close"]
    /\ UNCHANGED <<nextRecordID, up, cache, remote, historyVars, rd, closedUpTo,
                   batcherVars>>

NextRace ==
    \/ AddCall
    \/ AddWrite
    \/ AddAppend
    \/ AddAdvance
    \/ AddAdvanceEarly
    \/ AddAppendLate
    \/ AddReturn
    \/ \E r \in Readers : ReadCall(r)
    \/ \E r \in Readers : ReadScan(r)
    \/ \E r \in Readers : ReadReturn(r)

SpecRace == Init /\ [][NextRace]_vars

(***************************************************************************)
(* ReadRecord with S3Storage.Reader, Parse and Record taken call by call:  *)
(* several /get handlers read while the batch file is not in the cache.    *)
(* A reader holds a handle on the cache file and sees the bytes the file   *)
(* has when it reads, whoever wrote or truncated them.                     *)
(***************************************************************************)
\* the path of the batch that reader r has located
ReaderPath(r) == recordBatchPath(topicPath, rd[r].recordBatchID)

\* ReadRecord returns to its caller
ReadDone(r, err, bytes) ==
    /\ rd' = [rd EXCEPT ![r] = ReaderIdle]
    /\ op' = [name |-> "ReadRecord", arg |-> rd[r].recordID, err |-> err,
              out |-> bytes,
              pre |-> [nextRecordID |-> nextRecordID,
                       recordBatchIDs |-> recordBatchIDs],
              aux |-> [opened |-> <<ReaderPath(r)>>, fetched |-> rd[r].fetched,
                       batch |-> rd[r].recordBatchID,
                       \* the file that Reader returned is never closed
                       leaked |-> IF rd[r].pc = "get" THEN 0 ELSE 1]]

\* Reader line 371: os.Open of the cache file; on a hit the file is returned
ReadOpen(r) ==
    /\ rd[r].pc = "open"
    /\ rd' = [rd EXCEPT ![r].pc = IF ReaderPath(r) \in DOMAIN cache
                                  THEN "parse" ELSE "get"]
    /\ UNCHANGED <<storageVars, historyVars, w, closedUpTo, batcherVars>>

\* Reader lines 382-388: GetObject
ReadGet(r) ==
    /\ rd[r].pc = "get"
    /\ IF ReaderPath(r) \in DOMAIN remote
       THEN /\ rd' = [rd EXCEPT ![r].pc = "create", ![r].fetched = TRUE,
                                    ![r].obj = remote[ReaderPath(r)]]
            /\ op' = op
       ELSE ReadDone(r, "retrieving s3 object", <<>>)
    /\ UNCHANGED <<storageVars, gen, addFailed, acked, calls, w, closedUpTo, batcherVars>>

\* Reader line 392: createCacheFile makes the cache file or truncates it
ReadCreate(r) ==
    /\ rd[r].pc = "create"
    /\ cache' = createCacheFile(cache, ReaderPath(r))
    /\ rd' = [rd EXCEPT ![r].pc = "copy"]
    /\ UNCHANGED <<nextRecordID, recordBatchIDs, up, remote, historyVars, w, closedUpTo,
                   batcherVars>>

\* Reader lines 398-408: io.Copy writes the object from offset 0 of the
\* file, over what another handle may have written; the file is returned
ReadCopy(r) ==
    /\ rd[r].pc = "copy"
    /\ cache' = [cache EXCEPT ![ReaderPath(r)] =
                    rd[r].obj \o SubSeq(@, Len(rd[r].obj) + 1, Len(@))]
    /\ rd' = [rd EXCEPT ![r].pc = "parse", ![r].obj = <<>>]
    /\ UNCHANGED <<nextRecordID, recordBatchIDs, up, remote, historyVars, w, closedUpTo,
                   batcherVars>>

\* ReadRecord lines 97-100: Parse reads the header and the index
ReadParse(r) ==
    /\ rd[r].pc = "parse"
    /\ LET rb == Parse(cache[ReaderPath(r)])
       IN  IF rb.err # NoErr
           THEN ReadDone(r, rb.err, <<>>)
           ELSE /\ rd' = [rd EXCEPT ![r].pc = "record",
                                    ![r].rb = [Header |-> rb.Header,
                                               recordIndex |-> rb.recordIndex]]
                /\ op' = op
    /\ UNCHANGED <<storageVars, gen, addFailed, acked, calls, w, closedUpTo, batcherVars>>

\* ReadRecord lines 102-106: Record seeks and reads the record
ReadRecordBytes(r) ==
    /\ rd[r].pc = "record"
    /\ LET rec == Record([Header |-> rd[r].rb.Header,
                          recordIndex |-> rd[r].rb.recordIndex,
                          rdr |-> cache[ReaderPath(r)]],
                         rd[r].recordID - rd[r].recordBatchID)
       IN  ReadDone(r, rec.err, rec.bytes)
    /\ UNCHANGED <<storageVars, gen, addFailed, acked, calls, w, closedUpTo, batcherVars>>

\* the process is started again, which ends the requests in flight
Restart ==
    /\ \A r \in Readers : rd[r].pc = "idle"
    /\ DoNewStorage

NextReaders ==
    \/ DoAddRecordBatch
    \/ Restart
    \/ \E r \in Readers : ReadCall(r)
    \/ \E r \in Readers : ReadScan(r)
    \/ \E r \in Readers : ReadOpen(r)
    \/ \E r \in Readers : ReadGet(r)
    \/ \E r \in Readers : ReadCreate(r)
    \/ \E r \in Readers : ReadCopy(r)
    \/ \E r \in Readers : ReadParse(r)
    \/ \E r \in Readers : ReadRecordBytes(r)

SpecReaders == Init /\ [][NextReaders]_vars

(***************************************************************************)
(* cmd/smb-api: the /add handler and the blocking batcher it posts to.     *)
(* The batcher itself is not among the sources; its operations follow its  *)
(* description: one window accumulates submissions, a window that is done  *)
(* is handed to the flush callback, flushes run one after the other, and   *)
(* every submission of a flush is released with the result of that flush.  *)
(***************************************************************************)
\* the flush invocations that have not returned
Running == {i \in 1..Len(flushes) : flushes[i].state = "running"}

\* BlockingBatcher.Add, on arrival: the submission joins the open window
BatcherAdd(pend, p) == Append(pend, p)

\* CanFlush without the wait for the running flush
CanFlushWhileRunning(pend, running) == pend # <<>>

\* whether the batcher may hand the window to the flush callback: there is a
\* submission in it and no flush is running
CanFlush(pend, running) == pend # <<>> /\ running = {}

\* Released with the waiters let go as soon as their flush is dispatched
ReleasedOnDispatch(p) == prod[p].flush \in 1..Len(flushes)

\* whether the Add of p is released: its record was in a flush that returned
Released(p) ==
    /\ prod[p].flush \in 1..Len(flushes)
    /\ flushes[prod[p].flush].state = "returned"

\* what the Add of p returns: the error of the flush its record was in
AddResult(p) == flushes[prod[p].flush].err

\* the flush callback that main passes to NewBlockingBatcher: the error of
\* AddRecordBatch
FlushCallback(next, ids, c, rem, b, openFault, writeFault, closeFault) ==
    AddRecordBatch(next, ids, c, rem, b, openFault, writeFault, closeFault)

\* the /add handler up to its call of batcher.Add: the body is read (an
\* error of the read is answered 500, and the handler goes on with the
\* bytes read until then, here none), then the record is submitted and the
\* handler blocks
HandleAdd(p) ==
    /\ up /\ prod[p].pc = "idle"
    /\ \E bodyErr \in BOOLEAN :
          prod' = [prod EXCEPT ![p] = [pc |-> "blocked",
                                      rec |-> IF bodyErr THEN <<>> ELSE Body(p),
                                      flush |-> 0, result |-> NoErr,
                                      status |-> IF bodyErr THEN 500 ELSE 0]]
    /\ pending' = BatcherAdd(pending, p)
    /\ UNCHANGED <<storageVars, historyVars, rwVars, flushes>>

\* the window is done (its context is cancelled or past its deadline): the
\* accumulated submissions are handed to the flush callback
FlushBegin ==
    /\ CanFlush(pending, Running)
    /\ calls < MaxAdds
    /\ flushes' = Append(flushes, [members |-> pending, state |-> "running",
                                   err |-> NoErr])
    /\ prod' = [p \in Producers |->
                  IF \E i \in 1..Len(pending) : pending[i] = p
                  THEN [prod[p] EXCEPT !.flush = Len(flushes) + 1]
                  ELSE prod[p]]
    /\ pending' = <<>>
    /\ UNCHANGED <<storageVars, historyVars, rwVars>>

\* the flush callback runs AddRecordBatch and returns; the batcher records
\* the result for the submissions of this flush
FlushReturn ==
    \E i \in Running :
       LET b == [k \in 1..Len(flushes[i].members) |-> prod[flushes[i].members[k]].rec]
       IN  \E openFault \in WriterFaults, closeFault \in CloseFaults :
           \E writeFault \in WriteFaults(b) :
              /\ openFault = "none" \/ (writeFault = 0 /\ closeFault = "none")
              /\ LET a == FlushCallback(nextRecordID, recordBatchIDs, cache, remote,
                                        b, openFault, writeFault, closeFault)
                 IN  /\ nextRecordID' = a.nextRecordID
                     /\ recordBatchIDs' = a.recordBatchIDs
                     /\ cache' = a.cache
                     /\ remote' = a.remote
                     /\ addFailed' = (addFailed \/ a.err # NoErr)
                     /\ acked' = IF a.err = NoErr THEN acked \o b ELSE acked
                     /\ calls' = calls + 1
                     /\ op' = [name |-> "AddRecordBatch", arg |-> b, err |-> a.err,
                               out |-> <<>>,
                               pre |-> [nextRecordID |-> nextRecordID,
                                        recordBatchIDs |-> recordBatchIDs],
                               aux |-> [closeErr |-> a.closeErr, closed |-> a.closed,
                                        fileClosed |-> a.fileClosed, path |-> a.path]]
                     /\ flushes' = [flushes EXCEPT ![i].state = "returned",
                                                   ![i].err = a.err]
              /\ UNCHANGED <<up, gen, rwVars, prod, pending>>

\* batcher.Add returns to the /add handler, which answers 500 on an error
HandleAddReturn(p) ==
    /\ prod[p].pc = "blocked"
    /\ Released(p)
    /\ prod' = [prod EXCEPT ![p].pc = "done",
                            ![p].result = AddResult(p),
                            ![p].status = IF AddResult(p) # NoErr
                                          THEN WriteHeader(@, 500)
                                          ELSE WriteHeader(@, 200)]
    /\ UNCHANGED <<storageVars, historyVars, rwVars, pending, flushes>>

NextBatcher ==
    \/ \E p \in Producers : HandleAdd(p)
    \/ FlushBegin
    \/ FlushReturn
    \/ \E p \in Producers : HandleAddReturn(p)

SpecBatcher == Init /\ [][NextBatcher]_vars

(***************************************************************************)
(* Properties of the coordinator, checked under SpecFirst (C1) and Spec.   *)
(***************************************************************************)
\* the greatest element of the sequence ids that is <= id (0 when none is)
GreatestBelow(ids, id) ==
    LET below == {ids[i] : i \in {j \in 1..Len(ids) : ids[j] <= id}}
    IN  IF below = {} THEN 0 ELSE CHOOSE b \in below : \A x \in below : x <= b

\* C1: on the first coordinator of a topic, as long as every AddRecordBatch
\* has returned nil, ReadRecord(i) returns for every i below the number of
\* submitted records the i-th submitted record, read from the batch whose ID
\* is the greatest element of recordBatchIDs that is <= i; and every
\* ReadRecord call made returned just that.
C1_RoundTrip ==
    (gen = 1 /\ ~addFailed) =>
        /\ \A i \in 0..(Len(acked) - 1) :
              LET r == ReadRecord(nextRecordID, recordBatchIDs, cache, remote, i, "none")
              IN  /\ r.err = NoErr
                  /\ r.bytes = acked[i + 1]
                  /\ r.batch = GreatestBelow(recordBatchIDs, i)
                  /\ r.batch <= i
        /\ (op.name = "ReadRecord" /\ op.arg < Len(acked)) =>
              (op.err = NoErr /\ op.out = acked[op.arg + 1])

\* a ReadRecord call returned the second record of the second batch
C1_Witness ==
    /\ gen = 1 /\ ~addFailed
    /\ op.name = "ReadRecord" /\ op.err = NoErr
    /\ Len(recordBatchIDs) = 2
    /\ op.aux.batch = recordBatchIDs[2]
    /\ op.arg = op.aux.batch + 1
    /\ op.out # <<>>

\* C2: a ReadRecord call for an ID at or beyond the number of records whose
\* AddRecordBatch returned nil returns ErrOutOfBounds and opens no reader.
C2_OutOfBounds ==
    (op.name = "ReadRecord" /\ op.arg >= Len(acked)) =>
        (op.err = "ErrOutOfBounds" /\ op.aux.opened = <<>>)

\* C3: a coordinator constructed after one whose AddRecordBatch calls all
\* returned nil has the same nextRecordID and returns from ReadRecord, for
\* every ID, what the earlier coordinator returned.
C3_Recovery ==
    (op.name = "NewStorage" /\ gen > 1 /\ op.err = NoErr
        /\ op.pre.up /\ ~op.pre.addFailed) =>
        /\ nextRecordID = op.pre.nextRecordID
        /\ ReadAll(nextRecordID, recordBatchIDs, cache, remote) = op.pre.reads

\* C4: an AddRecordBatch call in which a step failed (the Writer, the codec
\* Write or the Close) leaves recordBatchIDs and nextRecordID as they were.
C4_FailureAtomicity ==
    (op.name = "AddRecordBatch" /\ (op.err # NoErr \/ op.aux.closeErr # NoErr)) =>
        /\ nextRecordID = op.pre.nextRecordID
        /\ recordBatchIDs = op.pre.recordBatchIDs

\* C5: an AddRecordBatch call whose Close failed returns an error; a call
\* that returns nil has committed the bytes of the batch under its path.
C5_CloseErrorPropagated ==
    (op.name = "AddRecordBatch") =>
        /\ (op.aux.closeErr # NoErr => op.err # NoErr)
        /\ (op.err = NoErr =>
              /\ op.aux.path \in DOMAIN remote
              /\ remote[op.aux.path] = Write(op.arg, 0).bytes)

\* C6: after an AddRecordBatch call returned an error, there is no object in
\* the bucket under the key of that batch.
C6_FailedAddPersistsNothing ==
    (op.name = "AddRecordBatch" /\ op.err # NoErr) =>
        op.aux.path \notin DOMAIN remote

(***************************************************************************)
(* Properties of the /get handler, checked under SpecGet.                  *)
(***************************************************************************)
\* the chunks of a response body that are record bytes
RecordChunks(body) == {i \in 1..Len(body) : body[i].kind = "record"}

\* C10: a request whose record-id is missing or not a number is answered 400,
\* with no ReadRecord call and no record in the body; an ID out of bounds is
\* answered 404; another ReadRecord error 500; a record is written to the
\* body only when ReadRecord succeeded for the requested ID.
C10_GetErrorMapping ==
    (op.name = "GET" /\ ~op.aux.parseFormErr) =>
        LET invalid == FromString(op.arg).err # NoErr
        IN  /\ invalid =>
                /\ op.out.status = 400
                /\ op.aux.read = <<>>
                /\ RecordChunks(op.out.body) = {}
            /\ (~invalid /\ op.err = "ErrOutOfBounds") => op.out.status = 404
            /\ (~invalid /\ op.err \notin {NoErr, "ErrOutOfBounds"}) =>
                op.out.status = 500
            /\ (\E i \in RecordChunks(op.out.body) : op.out.body[i].bytes # <<>>) =>
                (~invalid /\ op.err = NoErr)

(***************************************************************************)
(* Properties of concurrent reads and adds, checked under SpecRW.          *)
(***************************************************************************)
\* C7: a ReadRecord call that is past its bounds check asked for a record of
\* a batch whose writer's Close has returned.
C7_NoPartialBatchVisible ==
    \A r \in Readers : rd[r].pc # "idle" => rd[r].recordID < closedUpTo

(***************************************************************************)
(* Properties of the batcher, checked under SpecBatcher.                   *)
(***************************************************************************)
\* C8: an Add that has returned had its record in a flush that has returned,
\* and returned the error of that flush; an Add that has not returned is
\* blocked.
C8_ResultFanOut ==
    \A p \in Producers :
        prod[p].pc = "done" =>
            /\ prod[p].flush \in 1..Len(flushes)
            /\ \E k \in 1..Len(flushes[prod[p].flush].members) :
                  flushes[prod[p].flush].members[k] = p
            /\ flushes[prod[p].flush].state = "returned"
            /\ prod[p].result = flushes[prod[p].flush].err

\* two Adds have returned, one with nil from one flush and one with the
\* error of another flush
C8_Witness ==
    \E p, q \in Producers :
        /\ prod[p].pc = "done" /\ prod[q].pc = "done"
        /\ prod[p].flush # prod[q].flush
        /\ prod[p].result = NoErr /\ prod[q].result # NoErr

\* C9: at most one invocation of the flush callback, and so of
\* AddRecordBatch, is running.
C9_SingleFlusher == Cardinality(Running) <= 1

\* a flush is running while submissions for the next window have arrived,
\* after an earlier flush returned
C9_Witness ==
    /\ Cardinality(Running) = 1
    /\ pending # <<>>
    /\ \E i \in 1..Len(flushes) : flushes[i].state = "returned"

(***************************************************************************)
(* Invariants of the coordinator's state, checked under Spec.              *)
(***************************************************************************)
\* C11: recordBatchIDs is strictly increasing, and it contains the ID 0
\* exactly when the coordinator holds at least one record.
C11_BatchIDsInvariant ==
    up =>
        /\ \A i, j \in 1..Len(recordBatchIDs) :
              i < j => recordBatchIDs[i] < recordBatchIDs[j]
        /\ (\E i \in 1..Len(recordBatchIDs) : recordBatchIDs[i] = 0)
              <=> (nextRecordID > 0)

RECURSIVE SumNumRecords(_, _)
\* the sum of the NumRecords fields of the headers of the files ps of the
\* bucket rem (a file too short to hold a header counts for nothing)
SumNumRecords(rem, ps) ==
    IF ps = {} THEN 0
    ELSE LET p == CHOOSE q \in ps : TRUE
         IN  Parse(rem[p]).Header.NumRecords + SumNumRecords(rem, ps \ {p})

\* C12: nextRecordID is the sum of NumRecords over the batch files persisted
\* for the topic; an AddRecordBatch call that returned nil wrote its batch
\* under the ID that nextRecordID had before the call and advanced
\* nextRecordID by the number of its records.
C12_NextRecordIDIsSum ==
    up =>
        /\ nextRecordID = SumNumRecords(remote, DOMAIN remote)
        /\ (op.name = "AddRecordBatch" /\ op.err = NoErr) =>
              /\ op.aux.path = recordBatchPath(topicPath, op.pre.nextRecordID)
              /\ nextRecordID = op.pre.nextRecordID + Len(op.arg)

(***************************************************************************)
(* Startup over a listing in any order, checked under SpecListing.         *)
(***************************************************************************)
\* the greatest element of a non-empty sequence of IDs
MaxID(ids) == CHOOSE m \in {ids[i] : i \in 1..Len(ids)} : \A i \in 1..Len(ids) : ids[i] <= m

\* C13: whatever the order of the listing, a constructed coordinator has its
\* recordBatchIDs sorted ascending, has computed nextRecordID from the header
\* of the batch with the greatest ID, and locates for every valid record ID
\* the batch with the greatest ID that is <= the record ID.
C13_StartupOrdering ==
    (op.name = "NewStorage" /\ gen > 1 /\ op.err = NoErr) =>
        /\ \A i, j \in 1..Len(recordBatchIDs) :
              i < j => recordBatchIDs[i] <= recordBatchIDs[j]
        /\ recordBatchIDs # <<>> =>
              LET newest == MaxID(recordBatchIDs)
              IN  nextRecordID = newest
                      + Parse(remote[recordBatchPath(topicPath, newest)]).Header.NumRecords
        /\ \A id \in 0..(nextRecordID - 1) :
              LocateBatch(recordBatchIDs, id) = GreatestBelow(recordBatchIDs, id)

(***************************************************************************)
(* Concurrent reads of a batch that is not in the cache, checked under     *)
(* SpecReaders.                                                            *)
(***************************************************************************)
\* the record of the given ID in the object stored for the batch
StoredRecord(rem, recordID, recordBatchID) ==
    Record(Parse(rem[recordBatchPath(topicPath, recordBatchID)]), recordID - recordBatchID)

\* C17: a ReadRecord call that got past the bounds check, for a record of a
\* batch stored in the bucket, returns the bytes of that record as stored,
\* whatever other ReadRecord calls run at the same time.
C17_ConcurrentReads ==
    (/\ op.name = "ReadRecord" /\ op.err # "ErrOutOfBounds"
     /\ recordBatchPath(topicPath, op.aux.batch) \in DOMAIN remote
     /\ Parse(remote[recordBatchPath(topicPath, op.aux.batch)]).err = NoErr) =>
        /\ op.err = StoredRecord(remote, op.arg, op.aux.batch).err
        /\ op.out = StoredRecord(remote, op.arg, op.aux.batch).bytes

\* a reader is between creating the cache file under the path and having
\* filled it: the bytes under the path are not committed yet
Filling(path) == \E r \in Readers : rd[r].pc = "copy" /\ ReaderPath(r) = path

\* C14: no step changes or removes the bytes committed under a batch path,
\* in the bucket or (while the process keeps its cache directory) in the
\* cache.
C14_BatchImmutable ==
    [][
        /\ \A path \in DOMAIN remote :
              path \in DOMAIN remote' /\ remote'[path] = remote[path]
        /\ (gen' = gen) =>
              \A path \in DOMAIN cache :
                 Filling(path) \/ (path \in DOMAIN cache' /\ cache'[path] = cache[path])
    ]_vars

C16_CacheCoherence ==
    \A path \in DOMAIN cache :
        path \in DOMAIN remote /\ cache[path] = remote[path]

(***************************************************************************)
(* Publication of the coordinator's state, checked under SpecRace.         *)
(***************************************************************************)
\* the number of records of the batch, as its file's header says
NumRecordsOf(c, recordBatchID) ==
    Parse(c[recordBatchPath(topicPath, recordBatchID)]).Header.NumRecords

\* C18: in every state a reader can observe, every record ID below
\* nextRecordID lies in a batch whose ID is in recordBatchIDs.
C18_StatePublication ==
    \A id \in 0..(nextRecordID - 1) :
        \E i \in 1..Len(recordBatchIDs) :
            /\ recordBatchIDs[i] <= id
            /\ id < recordBatchIDs[i] + NumRecordsOf(cache, recordBatchIDs[i])

(***************************************************************************)
(* File handles, and retries of a failed add, checked under Spec.          *)
(***************************************************************************)
\* C19: when ReadRecord or the construction of a coordinator returns, no
\* file it opened is still open; when the Close of a writer has run, the
\* cache file of the writer is closed, whatever the upload did.
C19_NoHandleLeak ==
    /\ (op.name = "ReadRecord") => op.aux.leaked = 0
    /\ (op.name = "NewStorage" /\ gen > 1) => op.aux.leaked = 0
    /\ (op.name = "AddRecordBatch" /\ op.aux.closed) => op.aux.fileClosed

\* C20: after an AddRecordBatch call returned an error, an AddRecordBatch
\* call that meets no fault succeeds.
C20_RetryAfterFailure ==
    (up /\ op.name = "AddRecordBatch" /\ op.err # NoErr) =>
        \A records \in Batches(calls) :
            AddRecordBatch(nextRecordID, recordBatchIDs, cache, remote,
                           records, "none", 0, "none").err = NoErr

(***************************************************************************)
(* Writer on a path that exists, checked under SpecWriter.                 *)
(***************************************************************************)
\* C21: a Writer call for a path whose cache file exists, made directly or
\* by AddRecordBatch, returns an error, leaves every cache file as it was
\* and uploads nothing (no Close runs, the bucket is unchanged).
C21_DuplicatePathRejected ==
    [][
        /\ (op'.name = "Writer" /\ op'.arg \in DOMAIN cache) =>
              /\ op'.err = "file already exists"
              /\ cache' = cache
              /\ remote' = remote
        /\ (op'.name = "AddRecordBatch" /\ op'.aux.path \in DOMAIN cache) =>
              /\ op'.err = "opening writer"
              /\ ~op'.aux.closed
              /\ cache' = cache
              /\ remote' = remote
    ]_vars

\* a Writer call was refused for the path of a batch that is committed in
\* the cache and in the bucket
C21_Witness ==
    /\ op.name = "Writer" /\ op.err = "file already exists"
    /\ op.arg \in DOMAIN cache /\ op.arg \in DOMAIN remote
    /\ cache[op.arg] # <<>>
    /\ cache[op.arg] = remote[op.arg]

(***************************************************************************)
(* The codec round trip, checked under SpecCodec.                          *)
(***************************************************************************)
\* C22: Parse of the bytes that Write produced for a list of N records
\* succeeds with NumRecords = N; every Record(i) with i < N returns
\* records[i], whatever Record calls came before, and every Record(i) with
\* i >= N fails with ErrOutOfBounds.
C22_CodecRoundTrip ==
    (op.name \in {"Parse", "Record"}) =>
        LET records == op.pre
            N == Len(records)
        IN  /\ op.aux.rb.err = NoErr
            /\ op.aux.rb.Header.NumRecords = N
            /\ (op.name = "Record") =>
                  /\ IF op.arg < N
                     THEN op.err = NoErr /\ op.out = records[op.arg + 1]
                     ELSE op.err = "recordbatch.ErrOutOfBounds"
                  /\ Record(op.aux.rb, op.arg) = [err |-> op.err, bytes |-> op.out]

\* of three records of different lengths whose last is empty, the first was
\* read back right after the last
C22_Witness ==
    /\ op.name = "Record" /\ op.err = NoErr
    /\ Len(op.pre) = 3
    /\ op.pre[3] = <<>> /\ Len(op.pre[1]) # Len(op.pre[2]) /\ op.pre[2] # <<>>
    /\ op.aux.prev = 2 /\ op.arg = 0
    /\ op.out = op.pre[1] /\ op.out # <<>>

====
